---------------------------- MODULE Spec2Model ----------------------------
(***************************************************************************)
(* A model of tokenizer.py: the line-oriented scanner (Tokenizer), its     *)
(* dispatcher (FloatingTokenizer) and the two matchers (SymbolMatcher,     *)
(* CommentMatcher).                                                        *)
(*                                                                         *)
(* A Python str is a sequence of one-character strings, <<"/", "*">> for   *)
(* "/*"; positions are zero-based as in the source and s[i:] is            *)
(* Slice(s, i).  A kind name (token id) is a string, whose Len is its      *)
(* number of characters.  Optional[X] is a sequence of length 0 (None) or  *)
(* 1 (the value).                                                          *)
(***************************************************************************)
EXTENDS Naturals, Integers, Sequences, FiniteSets, TLC

(***************************************************************************)
(* Bounds of the model.                                                    *)
(***************************************************************************)
\* the longest stream over Alphabet that is scanned
MaxLen == 3
\* the number of Tokenizer instances constructed (registry specification)
MaxTokenizers == 2
\* the number of add_matcher calls (registry specification)
MaxMatchers == 4

None == << >>
Some(x) == << x >>

(***************************************************************************)
(* Strings.                                                                *)
(***************************************************************************)
\* s[i:]
Slice(s, i) == IF i >= Len(s) THEN << >> ELSE SubSeq(s, i + 1, Len(s))

\* s.startswith(p)
StartsWith(s, p) == /\ Len(p) <= Len(s)
                    /\ \A i \in 1..Len(p) : s[i] = p[i]

\* p in s
Contains(s, p) == \E i \in 0..Len(s) : StartsWith(Slice(s, i), p)

\* s.index(p), for p in s
Index(s, p) == CHOOSE i \in 0..Len(s) :
                  /\ StartsWith(Slice(s, i), p)
                  /\ \A j \in 0..(i - 1) : ~StartsWith(Slice(s, j), p)

\* the characters \s matches that the model's streams can hold
Whitespace == {" ", "\t", "\n", "\r", "\f"}

\* the line boundaries of str.splitlines that the model's streams can hold
LineBreaks == {"\n", "\r", "\f"}

\* a whitespace skip that knows the space character only
RECURSIVE WhitespaceEnd_spaces(_)
WhitespaceEnd_spaces(s) == IF s # << >> /\ Head(s) = " "
                           THEN 1 + WhitespaceEnd_spaces(Tail(s))
                           ELSE 0

\* re.compile(r"^\s*").match(s).end(0): the length of the leading whitespace
RECURSIVE WhitespaceEnd(_)
WhitespaceEnd(s) == IF s # << >> /\ Head(s) \in Whitespace
                    THEN 1 + WhitespaceEnd(Tail(s))
                    ELSE 0

\* str.splitlines: every line boundary ends a line ("\r\n" is one boundary),
\* and the text after the last boundary is a line only when it is not empty
RECURSIVE SplitFrom(_, _, _)
SplitFrom(s, cur, acc) ==
    IF s = << >> THEN (IF cur = << >> THEN acc ELSE Append(acc, cur))
    ELSE IF Head(s) = "\r" /\ Len(s) >= 2 /\ s[2] = "\n"
         THEN SplitFrom(Tail(Tail(s)), << >>, Append(acc, cur))
    ELSE IF Head(s) \in LineBreaks
         THEN SplitFrom(Tail(s), << >>, Append(acc, cur))
    ELSE SplitFrom(Tail(s), Append(cur, Head(s)), acc)

splitlines(s) == SplitFrom(s, << >>, << >>)

(***************************************************************************)
(* Token structures and exceptions.                                        *)
(***************************************************************************)
LineInfo(line_number, line_start, line_end) ==
    [line_number |-> line_number, line_start |-> line_start, line_end |-> line_end]

\* value is None or Some(text)
FloatingToken(token_id, value) == [token_id |-> token_id, value |-> value]

Token(tok, line_info) == [token |-> tok, line_info |-> line_info]

BadTokenException(line_number, line_position, line) ==
    [type |-> "BadTokenException", line_number |-> line_number,
     line_position |-> line_position, line |-> line]

NoEndException(line_number, line_position) ==
    [type |-> "NoEndException", line_number |-> line_number,
     line_position |-> line_position]

Symbol(symbol, tok) == [symbol |-> symbol, token |-> tok]

\* the result of a match_token call that matched nothing
NoMatch == [token |-> None, width |-> -1]


(***************************************************************************)
(* The matchers.  A match_token result is [token, width]; the comment      *)
(* matcher's also carries the value it leaves in self.is_multiline.        *)
(***************************************************************************)
\* a symbol matcher that takes the length of the kind name for the width
RECURSIVE SymbolMatcher_match_token_kindwidth(_, _)
SymbolMatcher_match_token_kindwidth(symbols, s) ==
    IF symbols = << >> THEN NoMatch
    ELSE IF StartsWith(s, Head(symbols).symbol)
         THEN [token |-> Some(FloatingToken(Head(symbols).token,
                                            Some(Head(symbols).symbol))),
               width |-> Len(Head(symbols).token)]
         ELSE SymbolMatcher_match_token_kindwidth(Tail(symbols), s)

\* a symbol matcher that keeps looking and returns the last symbol of the list
\* that the stream starts with
RECURSIVE SymbolMatcher_match_token_last(_, _)
SymbolMatcher_match_token_last(symbols, s) ==
    IF symbols = << >> THEN NoMatch
    ELSE IF StartsWith(s, symbols[Len(symbols)].symbol)
         THEN [token |-> Some(FloatingToken(symbols[Len(symbols)].token,
                                            Some(symbols[Len(symbols)].symbol))),
               width |-> Len(symbols[Len(symbols)].symbol)]
         ELSE SymbolMatcher_match_token_last(SubSeq(symbols, 1, Len(symbols) - 1), s)

\* SymbolMatcher.match_token: the first symbol of the list that the stream
\* starts with
RECURSIVE SymbolMatcher_match_token(_, _)
SymbolMatcher_match_token(symbols, s) ==
    IF symbols = << >> THEN NoMatch
    ELSE IF StartsWith(s, Head(symbols).symbol)
         THEN [token |-> Some(FloatingToken(Head(symbols).token,
                                            Some(Head(symbols).symbol))),
               width |-> Len(Head(symbols).symbol)]
         ELSE SymbolMatcher_match_token(Tail(symbols), s)

\* a comment matcher that looks for a single-line comment before it looks at
\* its flag
CommentMatcher_match_token_commentfirst(cm, s) ==
    IF StartsWith(s, cm.comment.symbol)
    THEN [token |-> Some(FloatingToken(cm.comment.token, None)),
          width |-> Len(s),
          is_multiline |-> cm.is_multiline]
    ELSE IF cm.is_multiline
    THEN IF Contains(s, cm.ml_end.symbol)
         THEN [token |-> Some(FloatingToken(cm.ml_end.token, None)),
               width |-> Index(s, cm.ml_end.symbol) + 2,
               is_multiline |-> FALSE]
         ELSE [token |-> Some(FloatingToken(cm.ml_end.token, None)),
               width |-> Len(s),
               is_multiline |-> TRUE]
    ELSE IF StartsWith(s, cm.ml_start.symbol)
         THEN [token |-> Some(FloatingToken(cm.ml_start.token, None)),
               width |-> Len(cm.ml_start.token),
               is_multiline |-> TRUE]
    ELSE [token |-> None, width |-> -1, is_multiline |-> FALSE]

\* a comment matcher whose single-line comment takes the marker only
CommentMatcher_match_token_marker(cm, s) ==
    IF cm.is_multiline
    THEN IF Contains(s, cm.ml_end.symbol)
         THEN [token |-> Some(FloatingToken(cm.ml_end.token, None)),
               width |-> Index(s, cm.ml_end.symbol) + 2,
               is_multiline |-> FALSE]
         ELSE [token |-> Some(FloatingToken(cm.ml_end.token, None)),
               width |-> Len(s),
               is_multiline |-> TRUE]
    ELSE IF StartsWith(s, cm.comment.symbol)
         THEN [token |-> Some(FloatingToken(cm.comment.token, None)),
               width |-> Len(cm.comment.symbol),
               is_multiline |-> FALSE]
    ELSE IF StartsWith(s, cm.ml_start.symbol)
         THEN [token |-> Some(FloatingToken(cm.ml_start.token, None)),
               width |-> Len(cm.ml_start.token),
               is_multiline |-> TRUE]
    ELSE [token |-> None, width |-> -1, is_multiline |-> FALSE]

\* CommentMatcher.match_token on the matcher cm = [is_multiline, ml_start,
\* ml_end, comment]
CommentMatcher_match_token(cm, s) ==
    IF cm.is_multiline
    THEN IF Contains(s, cm.ml_end.symbol)
         THEN [token |-> Some(FloatingToken(cm.ml_end.token, None)),
               width |-> Index(s, cm.ml_end.symbol) + 2,
               is_multiline |-> FALSE]
         ELSE [token |-> Some(FloatingToken(cm.ml_end.token, None)),
               width |-> Len(s),
               is_multiline |-> TRUE]
    ELSE IF StartsWith(s, cm.comment.symbol)
         THEN [token |-> Some(FloatingToken(cm.comment.token, None)),
               width |-> Len(s),
               is_multiline |-> FALSE]
    ELSE IF StartsWith(s, cm.ml_start.symbol)
         THEN [token |-> Some(FloatingToken(cm.ml_start.token, None)),
               width |-> Len(cm.ml_start.token),
               is_multiline |-> TRUE]
    ELSE [token |-> None, width |-> -1, is_multiline |-> FALSE]

\* tokens[::-1] scanned for the first token of the start kind
RECURSIVE LastStart(_, _)
LastStart(tokens, kind) ==
    IF tokens = << >> THEN None
    ELSE IF tokens[Len(tokens)].token.token_id = kind
         THEN Some(tokens[Len(tokens)])
         ELSE LastStart(SubSeq(tokens, 1, Len(tokens) - 1), kind)

\* CommentMatcher.end_matching: None, or Some(the exception raised)
CommentMatcher_end_matching(cm, tokens) ==
    IF cm.is_multiline /\ LastStart(tokens, cm.ml_start.token) # None
    THEN LET t == LastStart(tokens, cm.ml_start.token)[1]
         IN  Some(NoEndException(t.line_info.line_number, t.line_info.line_start))
    ELSE None

\* TokenMatcher.end_matching, inherited by SymbolMatcher
TokenMatcher_end_matching(tokens) == None

\* the matcher objects of the model: one CommentMatcher, one SymbolMatcher
MatcherIds == {"comm", "symb"}

\* i.match_token(stream) for the matcher object i
Matcher_match_token(i, cm, sm, s) ==
    IF i = "comm" THEN CommentMatcher_match_token(cm, s)
    ELSE [token |-> SymbolMatcher_match_token(sm.symbols, s).token,
          width |-> SymbolMatcher_match_token(sm.symbols, s).width,
          is_multiline |-> cm.is_multiline]

\* i.end_matching(tokens) for the matcher object i
Matcher_end_matching(i, cm, tokens) ==
    IF i = "comm" THEN CommentMatcher_end_matching(cm, tokens)
    ELSE TokenMatcher_end_matching(tokens)

\* a dispatcher that calls every matcher and returns the last token found
RECURSIVE FloatingTokenizer_match_token_all(_, _, _, _)
FloatingTokenizer_match_token_all(ms, cm, sm, s) ==
    IF ms = << >>
    THEN [token |-> None, width |-> -1, is_multiline |-> cm.is_multiline]
    ELSE LET r == Matcher_match_token(Head(ms), cm, sm, s)
             rest == FloatingTokenizer_match_token_all(
                         Tail(ms), [cm EXCEPT !.is_multiline = r.is_multiline], sm, s)
         IN  IF rest.token # None \/ r.token = None THEN rest
             ELSE [token |-> r.token, width |-> r.width,
                   is_multiline |-> rest.is_multiline]

\* FloatingTokenizer.match_token over the list ms: the matchers are called in
\* order until one returns a token
RECURSIVE FloatingTokenizer_match_token(_, _, _, _)
FloatingTokenizer_match_token(ms, cm, sm, s) ==
    IF ms = << >>
    THEN [token |-> None, width |-> -1, is_multiline |-> cm.is_multiline]
    ELSE LET r == Matcher_match_token(Head(ms), cm, sm, s)
         IN  IF r.token # None THEN r
             ELSE FloatingTokenizer_match_token(
                      Tail(ms), [cm EXCEPT !.is_multiline = r.is_multiline], sm, s)

(***************************************************************************)
(* Configurations and inputs.                                              *)
(***************************************************************************)
\* the comment matcher of the __main__ block
CommentDemo == [ml_start |-> Symbol(<<"/", "*">>, "MULTILINE_START"),
                ml_end   |-> Symbol(<<"*", "/">>, "MULTILINE_END"),
                comment  |-> Symbol(<<"/", "/">>, "SINGLE_COMMENT")]

\* the same markers under kind names as long as the markers
CommentShort == [ml_start |-> Symbol(<<"/", "*">>, "MS"),
                 ml_end   |-> Symbol(<<"*", "/">>, "ME"),
                 comment  |-> Symbol(<<"/", "/">>, "SC")]

CommentConfigs == {CommentDemo, CommentShort}

\* an end marker of three characters
CommentLongEnd == [ml_start |-> Symbol(<<"/", "*">>, "MS"),
                   ml_end   |-> Symbol(<<"*", "*", "/">>, "ME"),
                   comment  |-> Symbol(<<"/", "/">>, "SC")]

\* a start marker whose kind name is the empty string
CommentNoKind == [ml_start |-> Symbol(<<"/", "*">>, ""),
                  ml_end   |-> Symbol(<<"*", "/">>, "ME"),
                  comment  |-> Symbol(<<"/", "/">>, "SC")]

MarkerConfigs == {CommentLongEnd, CommentNoKind}

\* longer literals before their prefixes, as in the __main__ block
TableOrdered == << Symbol(<<"!", "=", "=">>, "SYMB_NEQQ"),
                   Symbol(<<"!", "=">>, "SYMB_NEQ"),
                   Symbol(<<"!">>, "SYMB_NOT"),
                   Symbol(<<"=">>, "SYMB_EQ"),
                   Symbol(<<";">>, "SYMB_SEMICOLON"),
                   Symbol(<<"*">>, "SYMB_STAR") >>

\* a literal after one of its prefixes
TableMisordered == << Symbol(<<"!">>, "SYMB_NOT"),
                      Symbol(<<"!", "=">>, "SYMB_NEQ") >>

\* literals that the comment markers start with
TableSlash == << Symbol(<<"/">>, "SYMB_DIV"),
                 Symbol(<<"*">>, "SYMB_STAR"),
                 Symbol(<<";">>, "SYMB_SEMICOLON") >>

SymbolTables == {TableOrdered, TableMisordered, TableSlash}

\* the registries that add_matcher calls build from the two matcher objects
Registries == {<< >>, <<"comm">>, <<"symb">>, <<"comm", "symb">>, <<"symb", "comm">>}

Alphabet == {"/", "*", "!", "=", " ", "\n"}

\* every stream over Alphabet of at most n characters
StrOver(n) == UNION {[1..k -> Alphabet] : k \in 0..n}

\* streams named by the documentation, and longer multi-line ones
Examples == {
    <<"/", "*", " ", "x", " ", "*", "/", " ", ";">>,
    <<"@", "@", "@">>,
    <<";", " ", "@">>,
    <<"/", "/", " ", "a", "n", "y", "t", "h", "i", "n", "g", " ", "h", "e", "r", "e">>,
    <<";", " ", "/", "/", " ", ";", "\n", ";">>,
    <<"/", "*", " ", "x", "\n", " ", "\t", "\n", "\n", "y", " ", "*", "/", " ", ";">>,
    <<";", "\n", " ", "/", "*", "\n", "x", "\n">>,
    <<"/", "*", " ", "x", "\n", "/", "/", " ", "y", "\n", "/", "*", " ", "z">>,
    <<"!", "=", "=", " ", "!", "=", "\t", "!", "\r", "\n", "=", " ", ";">> }

Streams == StrOver(MaxLen) \cup Examples

(***************************************************************************)
(* The state.                                                              *)
(***************************************************************************)
VARIABLES
    matchers,          \* FloatingTokenizer.matchers, the class attribute
    tokenizers,        \* the Tokenizer instances constructed so far
    added,             \* added[t]: the matchers passed to t.add_matcher, in order
    comm_match,        \* the CommentMatcher object: its fields
    symb_match,        \* the SymbolMatcher object: its field symbols
    pc,                \* where the match_tokens call stands
    stream,            \* the argument of the call: match_tokens' stream, or
                       \* SymbolMatcher.__init__'s symbols
    lines,             \* match_tokens' local lines
    line_number,       \* the for loop's index
    line_pos,          \* match_tokens' local line_pos
    token,             \* match_tokens' local token (line 173)
    width,             \* match_tokens' local width (line 173)
    output,            \* match_tokens' local output
    result,            \* None, or Some(the list match_tokens returned)
    error,             \* None, or Some(the exception raised)
    end_matching_log   \* the matchers whose end_matching was called since the scan began

vars == << matchers, tokenizers, added, comm_match, symb_match, pc, stream, lines,
           line_number, line_pos, token, width, output, result, error,
           end_matching_log >>

scan_vars == << pc, stream, lines, line_number, line_pos, token, width, output,
                result, error, end_matching_log >>

\* the line the for loop is at
line == lines[line_number + 1]

\* self.tokenizer.matchers of the Tokenizer t: the attribute is found on the class
RegistryOf(t) == matchers

NoScan == /\ pc = "idle"
          /\ stream = << >>
          /\ lines = << >>
          /\ line_number = 0
          /\ line_pos = 0
          /\ token = None
          /\ width = 0
          /\ output = << >>
          /\ result = None
          /\ error = None
          /\ end_matching_log = << >>

\* a configured tokenizer, as the __main__ block builds it, before its first scan
Init == /\ comm_match \in {[is_multiline |-> FALSE, ml_start |-> c.ml_start,
                            ml_end |-> c.ml_end, comment |-> c.comment] :
                           c \in CommentConfigs}
        /\ symb_match \in {[symbols |-> t] : t \in SymbolTables}
        /\ matchers \in Registries
        /\ tokenizers = {1}
        /\ added = [t \in 1..MaxTokenizers |-> IF t = 1 THEN matchers ELSE << >>]
        /\ NoScan

\* a tokenizer configured with a comment matcher of MarkerConfigs
InitMarkers == /\ comm_match \in {[is_multiline |-> FALSE, ml_start |-> c.ml_start,
                                   ml_end |-> c.ml_end, comment |-> c.comment] :
                                  c \in MarkerConfigs}
               /\ symb_match = [symbols |-> TableSlash]
               /\ matchers \in {<<"comm">>, <<"comm", "symb">>}
               /\ tokenizers = {1}
               /\ added = [t \in 1..MaxTokenizers |-> IF t = 1 THEN matchers ELSE << >>]
               /\ NoScan

\* nothing constructed yet but the two matcher objects
InitRegistry == /\ comm_match = [is_multiline |-> FALSE, ml_start |-> CommentDemo.ml_start,
                                 ml_end |-> CommentDemo.ml_end,
                                 comment |-> CommentDemo.comment]
                /\ symb_match = [symbols |-> TableOrdered]
                /\ matchers = << >>
                /\ tokenizers = {}
                /\ added = [t \in 1..MaxTokenizers |-> << >>]
                /\ NoScan

(***************************************************************************)
(* Construction and registration.                                          *)
(***************************************************************************)
\* Tokenizer(): a new instance, holding a new FloatingTokenizer
NewTokenizer ==
    /\ pc = "idle"
    /\ Cardinality(tokenizers) < MaxTokenizers
    /\ tokenizers' = tokenizers \cup {Cardinality(tokenizers) + 1}
    /\ UNCHANGED << matchers, added, comm_match, symb_match, scan_vars >>

\* t.add_matcher(m): self.matchers.append(m) appends to the class attribute
AddMatcher(t, m) ==
    /\ pc = "idle"
    /\ t \in tokenizers
    /\ Len(matchers) < MaxMatchers
    /\ matchers' = Append(matchers, m)
    /\ added' = [added EXCEPT ![t] = Append(@, m)]
    /\ UNCHANGED << tokenizers, comm_match, symb_match, scan_vars >>

(***************************************************************************)
(* Tokenizer.match_tokens, one loop step at a time.                        *)
(***************************************************************************)
\* the call: lines 161-163
MatchTokens(t, s) ==
    /\ pc = "idle"
    /\ t \in tokenizers
    /\ pc' = "while"
    /\ stream' = s
    /\ lines' = splitlines(s)
    /\ line_number' = 0
    /\ line_pos' = 0
    /\ token' = None
    /\ width' = 0
    /\ output' = << >>
    /\ result' = None
    /\ error' = None
    /\ end_matching_log' = << >>
    /\ UNCHANGED << matchers, tokenizers, added, comm_match, symb_match >>

\* lines 167-172 when only whitespace is left: break, on to the next line
SkipBlank ==
    /\ pc = "while"
    /\ line_number < Len(lines)
    /\ line_pos < Len(line)
    /\ line_pos + WhitespaceEnd(Slice(line, line_pos)) = Len(line)
    /\ line_number' = line_number + 1
    /\ line_pos' = 0
    /\ UNCHANGED << matchers, tokenizers, added, comm_match, symb_match, pc, stream,
                    lines, token, width, output, result, error, end_matching_log >>

\* lines 167-173: skip the whitespace and ask the dispatcher
Match ==
    /\ pc = "while"
    /\ line_number < Len(lines)
    /\ line_pos < Len(line)
    /\ line_pos + WhitespaceEnd(Slice(line, line_pos)) # Len(line)
    /\ LET pos == line_pos + WhitespaceEnd(Slice(line, line_pos))
           r == FloatingTokenizer_match_token(matchers, comm_match, symb_match,
                                              Slice(line, pos))
       IN  /\ line_pos' = pos
           /\ token' = r.token
           /\ width' = r.width
           /\ comm_match' = [comm_match EXCEPT !.is_multiline = r.is_multiline]
    /\ pc' = "matched"
    /\ UNCHANGED << matchers, tokenizers, added, symb_match, stream, lines,
                    line_number, output, result, error, end_matching_log >>

\* a failure that counts lines from one
RaiseBadToken_onebased ==
    /\ pc = "matched"
    /\ token = None
    /\ pc' = "raised"
    /\ error' = Some(BadTokenException(line_number + 1, line_pos, line))
    /\ UNCHANGED << matchers, tokenizers, added, comm_match, symb_match, stream, lines,
                    line_number, line_pos, token, width, output, result,
                    end_matching_log >>

\* lines 175-176: no token
RaiseBadToken ==
    /\ pc = "matched"
    /\ token = None
    /\ pc' = "raised"
    /\ error' = Some(BadTokenException(line_number, line_pos, line))
    /\ UNCHANGED << matchers, tokenizers, added, comm_match, symb_match, stream, lines,
                    line_number, line_pos, token, width, output, result,
                    end_matching_log >>

\* an append that takes the width for the end offset
Emit_widthend ==
    /\ pc = "matched"
    /\ token # None
    /\ output' = Append(output, Token(token[1], LineInfo(line_number, line_pos, width)))
    /\ line_pos' = line_pos + width
    /\ pc' = "while"
    /\ UNCHANGED << matchers, tokenizers, added, comm_match, symb_match, stream, lines,
                    line_number, token, width, result, error, end_matching_log >>

\* an append whose end offset is one past the character after the token
Emit_inclusive ==
    /\ pc = "matched"
    /\ token # None
    /\ output' = Append(output, Token(token[1],
                                      LineInfo(line_number, line_pos, line_pos + width + 1)))
    /\ line_pos' = line_pos + width
    /\ pc' = "while"
    /\ UNCHANGED << matchers, tokenizers, added, comm_match, symb_match, stream, lines,
                    line_number, token, width, result, error, end_matching_log >>

\* lines 179-182: the token is appended and the cursor moves on
Emit ==
    /\ pc = "matched"
    /\ token # None
    /\ output' = Append(output, Token(token[1],
                                      LineInfo(line_number, line_pos, line_pos + width)))
    /\ line_pos' = line_pos + width
    /\ pc' = "while"
    /\ UNCHANGED << matchers, tokenizers, added, comm_match, symb_match, stream, lines,
                    line_number, token, width, result, error, end_matching_log >>

\* line 167 false: the for loop takes the next line
NextLine ==
    /\ pc = "while"
    /\ line_number < Len(lines)
    /\ line_pos >= Len(line)
    /\ line_number' = line_number + 1
    /\ line_pos' = 0
    /\ UNCHANGED << matchers, tokenizers, added, comm_match, symb_match, pc, stream,
                    lines, token, width, output, result, error, end_matching_log >>

\* line 187: the for loop is over
Return ==
    /\ pc = "while"
    /\ line_number = Len(lines)
    /\ pc' = "returned"
    /\ result' = Some(output)
    /\ UNCHANGED << matchers, tokenizers, added, comm_match, symb_match, stream, lines,
                    line_number, line_pos, token, width, output, error,
                    end_matching_log >>

\* m.end_matching(tokens), called by the caller of match_tokens on the list it got
EndMatching(m) ==
    /\ pc = "returned"
    /\ \A i \in 1..Len(end_matching_log) : end_matching_log[i] # m
    /\ end_matching_log' = Append(end_matching_log, m)
    /\ error' = Matcher_end_matching(m, comm_match, result[1])
    /\ pc' = IF error' = None THEN "returned" ELSE "raised"
    /\ UNCHANGED << matchers, tokenizers, added, comm_match, symb_match, stream, lines,
                    line_number, line_pos, token, width, output, result >>

\* the call is over and its frame is gone: the caller is ready for the next call
Discard ==
    /\ pc \in {"returned", "raised", "constructed"}
    /\ pc' = "idle"
    /\ stream' = << >>
    /\ lines' = << >>
    /\ line_number' = 0
    /\ line_pos' = 0
    /\ token' = None
    /\ width' = 0
    /\ output' = << >>
    /\ result' = None
    /\ error' = None
    /\ end_matching_log' = << >>
    /\ UNCHANGED << matchers, tokenizers, added, comm_match, symb_match >>

Next == \/ \E s \in Streams : MatchTokens(1, s)
        \/ SkipBlank
        \/ Match
        \/ RaiseBadToken
        \/ Emit
        \/ NextLine
        \/ Return
        \/ \E m \in MatcherIds : EndMatching(m)
        \/ Discard

Spec == Init /\ [][Next]_vars

SpecMarkers == InitMarkers /\ [][Next]_vars

NextRegistry == \/ NewTokenizer
                \/ \E t \in 1..MaxTokenizers, m \in MatcherIds : AddMatcher(t, m)

SpecRegistry == InitRegistry /\ [][NextRegistry]_vars

(***************************************************************************)
(* SymbolMatcher.__init__ from a bulk specification.  The kinds it reads   *)
(* are sequences of characters, like the literals.                         *)
(***************************************************************************)
\* the longest bulk specification over BulkAlphabet
MaxBulkLen == 4

BulkAlphabet == {"a", "!", " ", "\t", "\n"}

\* bulk specifications of two lines, the second of them from the __main__ block
BulkExamples == {
    <<" ", "!", " ", " ", "a", "\n", "\t", "a", " ", "\t", " ", "!", "!", " ">>,
    <<" ", "?", " ", " ", " ", " ", " ", "S", "\n",
      " ", " ", ":", " ", " ", " ", " ", " ", "C">>,
    <<"!", "\t", "a", "\n", "a", " ", "!">>,
    <<"a", " ", "!", "\n", "\n", "!", " ", "a">> }

BulkSpecs == UNION {[1..k -> BulkAlphabet] : k \in 0..MaxBulkLen} \cup BulkExamples

\* s.isspace()
isspace(s) == s # << >> /\ \A k \in 1..Len(s) : s[k] \in Whitespace

\* s.lstrip()
RECURSIVE lstrip(_)
lstrip(s) == IF s # << >> /\ Head(s) \in Whitespace THEN lstrip(Tail(s)) ELSE s

\* s.rstrip()
RECURSIVE rstrip(_)
rstrip(s) == IF s # << >> /\ s[Len(s)] \in Whitespace
             THEN rstrip(SubSeq(s, 1, Len(s) - 1))
             ELSE s

\* s.strip()
strip(s) == rstrip(lstrip(s))

\* s.split(" "): every single space separates, empty pieces are kept
RECURSIVE SplitSpaceFrom(_, _, _)
SplitSpaceFrom(s, cur, acc) ==
    IF s = << >> THEN Append(acc, cur)
    ELSE IF Head(s) = " " THEN SplitSpaceFrom(Tail(s), << >>, Append(acc, cur))
    ELSE SplitSpaceFrom(Tail(s), Append(cur, Head(s)), acc)

split_space(s) == SplitSpaceFrom(s, << >>, << >>)

\* line 229: [x.strip() for x in line.strip().split(" ")
\*            if len(x) > 0 and not x.isspace()]
SplitLine(l) ==
    LET pieces == SelectSeq(split_space(strip(l)),
                            LAMBDA x : Len(x) > 0 /\ ~isspace(x))
    IN  [i \in 1..Len(pieces) |-> strip(pieces[i])]

ValueError(l) == [type |-> "ValueError", line |-> l]

\* lines 227-234: the loop over the lines, [symbols, error] at its end
RECURSIVE ReadSymbols(_, _)
ReadSymbols(ls, acc) ==
    IF ls = << >> THEN [symbols |-> acc, error |-> None]
    ELSE IF Len(SplitLine(Head(ls))) # 2
         THEN [symbols |-> acc, error |-> Some(ValueError(Head(ls)))]
         ELSE ReadSymbols(Tail(ls),
                          Append(acc, Symbol(SplitLine(Head(ls))[1],
                                             SplitLine(Head(ls))[2])))

\* SymbolMatcher.__init__(symbols): lines 225-234
SymbolMatcher_init(text) ==
    IF text # << >> THEN ReadSymbols(splitlines(text), << >>)
    ELSE [symbols |-> << >>, error |-> None]

\* symb_match = SymbolMatcher(text): the object exists only when nothing is raised
NewSymbolMatcher(text) ==
    /\ pc = "idle"
    /\ stream' = text
    /\ error' = SymbolMatcher_init(text).error
    /\ IF SymbolMatcher_init(text).error = None
       THEN /\ pc' = "constructed"
            /\ symb_match' = [symbols |-> SymbolMatcher_init(text).symbols]
       ELSE /\ pc' = "raised"
            /\ UNCHANGED symb_match
    /\ UNCHANGED << matchers, tokenizers, added, comm_match, lines, line_number,
                    line_pos, token, width, output, result, end_matching_log >>

NextBulk == \/ \E text \in BulkSpecs : NewSymbolMatcher(text)
            \/ Discard

SpecBulk == InitRegistry /\ [][NextBulk]_vars

(***************************************************************************)
(* SymbolMatcher.add_symbol and add_symbols between the scans of a         *)
(* tokenizer.                                                              *)
(***************************************************************************)
\* the longest symbol table that add_symbol and add_symbols build
MaxSymbols == 4

\* the pairs that are added
AddedSymbols == {Symbol(<<"!">>, "SYMB_NOT"), Symbol(<<"=">>, "SYMB_EQ")}

\* the lists add_symbols is called with: of no, one or two pairs
SymbolLists == {<< >>} \cup {<<a>> : a \in AddedSymbols}
                 \cup {<<a, b>> : a \in AddedSymbols, b \in AddedSymbols}

\* symb_match.add_symbol(symbol, tok): line 243
AddSymbol(symbol, tok) ==
    /\ pc = "idle"
    /\ Len(symb_match.symbols) < MaxSymbols
    /\ symb_match' = [symb_match EXCEPT !.symbols = Append(@, Symbol(symbol, tok))]
    /\ UNCHANGED << matchers, tokenizers, added, comm_match, scan_vars >>

\* symb_match.add_symbols(symbols): line 255
AddSymbols(symbols) ==
    /\ pc = "idle"
    /\ Len(symb_match.symbols) + Len(symbols) <= MaxSymbols
    /\ symb_match' = [symb_match EXCEPT !.symbols = @ \o symbols]
    /\ UNCHANGED << matchers, tokenizers, added, comm_match, scan_vars >>

\* a tokenizer whose symbol matcher is registered, before its first scan
InitSymbols == /\ comm_match = [is_multiline |-> FALSE,
                                ml_start |-> CommentShort.ml_start,
                                ml_end |-> CommentShort.ml_end,
                                comment |-> CommentShort.comment]
               /\ symb_match \in {[symbols |-> t] : t \in SymbolTables}
               /\ matchers \in {<<"symb">>, <<"comm", "symb">>}
               /\ tokenizers = {1}
               /\ added = [t \in 1..MaxTokenizers |-> IF t = 1 THEN matchers ELSE << >>]
               /\ NoScan

NextSymbols == \/ \E a \in AddedSymbols : AddSymbol(a.symbol, a.token)
               \/ \E ss \in SymbolLists : AddSymbols(ss)
               \/ \E s \in Streams : MatchTokens(1, s)
               \/ SkipBlank
               \/ Match
               \/ RaiseBadToken
               \/ Emit
               \/ NextLine
               \/ Return
               \/ \E m \in MatcherIds : EndMatching(m)
               \/ Discard

SpecSymbols == InitSymbols /\ [][NextSymbols]_vars

(***************************************************************************)
(* Properties.                                                             *)
(***************************************************************************)
\* the kinds of a token list, in order
Kinds(tokens) == [i \in 1..Len(tokens) |-> tokens[i].token.token_id]

\* the comment matcher is registered, a start marker was matched in this scan
\* and the matcher is still inside the comment
Unterminated ==
    /\ \E i \in 1..Len(matchers) : matchers[i] = "comm"
    /\ comm_match.is_multiline
    /\ LastStart(output, comm_match.ml_start.token) # None

\* C1: a scan that matched a multi-line start marker and found no end marker
\* after it does not return a token list; it ends with NoEndException at the
\* line number and column of the token emitted for the opening marker.
C1_UnterminatedCommentRaises ==
    ( /\ pc \in {"returned", "raised"}
      /\ end_matching_log = << >>
      /\ Unterminated
      /\ ~Contains(stream, comm_match.ml_end.symbol) )
    => /\ pc = "raised"
       /\ result = None
       /\ LET t == LastStart(output, comm_match.ml_start.token)[1]
          IN  error = Some([type |-> "NoEndException",
                            line_number |-> t.line_info.line_number,
                            line_position |-> t.line_info.line_start])

\* C2: when match_tokens has processed the last line and returns, end_matching
\* has been invoked exactly once on every registered matcher, in registration
\* order.
C2_FinalizeBeforeReturn ==
    [][(pc = "while" /\ pc' = "returned") => end_matching_log' = matchers']_vars

\* C3: the registry of every scanner instance holds exactly the matchers added
\* through that instance, in the order added (so it is empty at construction
\* and untouched by add_matcher on another instance).
C3_IndependentRegistries ==
    \A t \in tokenizers : RegistryOf(t) = added[t]

\* C6: "/* x */ ;" scanned with the comment matcher registered before a symbol
\* matcher that knows ";", the opening marker being matched as such, yields
\* exactly three tokens: start-comment, end-comment, then ";" at column 8.
C6_SameLineComment ==
    ( /\ pc = "returned"
      /\ stream = <<"/", "*", " ", "x", " ", "*", "/", " ", ";">>
      /\ matchers = <<"comm", "symb">>
      /\ \E i \in 1..Len(symb_match.symbols) : symb_match.symbols[i].symbol = <<";">>
      /\ output # << >>
      /\ output[1].token.token_id = comm_match.ml_start.token )
    => /\ Len(result[1]) = 3
       /\ Kinds(result[1])[1] = comm_match.ml_start.token
       /\ Kinds(result[1])[2] = comm_match.ml_end.token
       /\ result[1][3].token.value = Some(<<";">>)
       /\ result[1][1].line_info = [line_number |-> 0, line_start |-> 0, line_end |-> 2]
       /\ result[1][2].line_info = [line_number |-> 0, line_start |-> 3, line_end |-> 7]
       /\ result[1][3].line_info = [line_number |-> 0, line_start |-> 8, line_end |-> 9]

\* the text at the cursor that the dispatcher is asked about
Remaining == Slice(line, line_pos)

\* the matcher registered at place i matches the text s when asked in the
\* state cm of the comment matcher
Matches(i, cm, s) == Matcher_match_token(matchers[i], cm, symb_match, s).token # None

\* C4: the dispatcher returns the result of the first registered matcher, in
\* registration order, that matches the substring; the matchers registered
\* after it are not asked, so the comment matcher's flag is what that one call
\* left; and it returns no match exactly when no registered matcher matches.
C4_FirstMatchDispatch ==
    [][(pc = "while" /\ pc' = "matched") =>
        LET s == Slice(line, line_pos')
            hits == {i \in 1..Len(matchers) : Matches(i, comm_match, s)}
        IN  /\ (token' = None) <=> (hits = {})
            /\ hits = {} => /\ width' = -1
                            /\ comm_match' = comm_match
            /\ hits # {} =>
                 LET first == CHOOSE i \in hits : \A j \in hits : i <= j
                     r == Matcher_match_token(matchers[first], comm_match, symb_match, s)
                 IN  /\ token' = r.token
                     /\ width' = r.width
                     /\ comm_match'.is_multiline = r.is_multiline
       ]_vars

\* C4's case: the symbol matcher, registered first, took "/" of a "/*", and
\* the comment matcher registered after it was left outside the comment
C4_Witness ==
    /\ pc = "matched"
    /\ matchers = <<"symb", "comm">>
    /\ token = Some([token_id |-> "SYMB_DIV", value |-> Some(<<"/">>)])
    /\ StartsWith(Remaining, comm_match.ml_start.symbol)
    /\ ~comm_match.is_multiline

\* C5: asked alone, the symbol matcher returns the first pair in list order
\* whose literal is a prefix of the remaining line, with that pair's kind, the
\* literal as text and the literal's length as width, and no match when no
\* literal is a prefix; with "!==", "!=", "!" in that order, "!==" scans to
\* exactly one token, of the "!==" kind.
C5_FirstPrefixSymbol ==
    /\ (pc = "matched" /\ matchers = <<"symb">>) =>
         LET syms == symb_match.symbols
             hits == {i \in 1..Len(syms) : StartsWith(Remaining, syms[i].symbol)}
         IN  /\ hits = {} => token = None
             /\ hits # {} =>
                  LET first == CHOOSE i \in hits : \A j \in hits : i <= j
                  IN  /\ token = Some([token_id |-> syms[first].token,
                                       value |-> Some(syms[first].symbol)])
                      /\ width = Len(syms[first].symbol)
    /\ ( /\ pc = "returned"
         /\ matchers = <<"symb">>
         /\ symb_match.symbols = TableOrdered
         /\ stream = <<"!", "=", "=">> ) =>
         result = Some(<< [token |-> [token_id |-> "SYMB_NEQQ",
                                      value |-> Some(<<"!", "=", "=">>)],
                           line_info |-> [line_number |-> 0, line_start |-> 0,
                                          line_end |-> 3]] >>)

\* C5's case: "!==" was scanned to its one token by the ordered table
C5_Witness ==
    /\ pc = "returned"
    /\ matchers = <<"symb">>
    /\ symb_match.symbols = TableOrdered
    /\ stream = <<"!", "=", "=">>
    /\ Len(result[1]) = 1

\* the comment matcher is registered and is asked about s: no matcher
\* registered before it matches s
CommAsked(s) ==
    \E i \in 1..Len(matchers) :
        /\ matchers[i] = "comm"
        /\ \A j \in 1..(i - 1) : ~Matches(j, comm_match, s)

\* C7: when the comment matcher is asked while not inside a multi-line comment
\* and the remaining line starts with the single-line marker, one token of the
\* single-line kind is emitted whose width is the length of the whole remaining
\* line, and no further token is emitted for that line.
C7_SingleLineComment ==
    /\ [][( /\ pc = "while"
            /\ pc' = "matched"
            /\ ~comm_match.is_multiline
            /\ CommAsked(Slice(line, line_pos'))
            /\ StartsWith(Slice(line, line_pos'), comm_match.comment.symbol) )
          => /\ token' = Some([token_id |-> comm_match.comment.token, value |-> None])
             /\ width' = Len(line) - line_pos'
             /\ ~comm_match'.is_multiline
         ]_vars
    /\ [](\A i \in 1..Len(output) :
            output[i].token.token_id = comm_match.comment.token =>
              /\ output[i].line_info.line_end
                   = Len(lines[output[i].line_info.line_number + 1])
              /\ \A j \in (i + 1)..Len(output) :
                   output[j].line_info.line_number > output[i].line_info.line_number
              /\ (i = Len(output) /\ pc = "while" /\ line_number = output[i].line_info.line_number)
                   => line_pos = Len(line))

\* C7's case: a comment after a token; the ";" inside it is not tokenized and
\* the next token is on the next line
C7_Witness ==
    /\ pc = "returned"
    /\ stream = <<";", " ", "/", "/", " ", ";", "\n", ";">>
    /\ matchers = <<"comm", "symb">>
    /\ Kinds(result[1]) = <<"SYMB_SEMICOLON", comm_match.comment.token, "SYMB_SEMICOLON">>
    /\ result[1][2].line_info = [line_number |-> 0, line_start |-> 2, line_end |-> 6]
    /\ result[1][3].line_info.line_number = 1

\* the end of the last token emitted on the current line, 0 when there is none
PrevEnd == IF output # << >> /\ output[Len(output)].line_info.line_number = line_number
           THEN output[Len(output)].line_info.line_end
           ELSE 0

BadTokenRaised == pc = "raised" /\ error # None /\ error[1].type = "BadTokenException"

\* C8: when no registered matcher matches the text at the cursor (after the
\* leading whitespace), match_tokens aborts at once with BadTokenException
\* carrying the zero-based line number, the cursor column and the whole line,
\* and returns no tokens; "@@@" fails with line 0, column 0, line "@@@".
C8_BadToken ==
    /\ [][(pc = "matched" /\ token = None) =>
            /\ pc' = "raised"
            /\ result' = None
            /\ error' = Some([type |-> "BadTokenException", line_number |-> line_number,
                              line_position |-> line_pos, line |-> lines[line_number + 1]])
         ]_vars
    /\ [](BadTokenRaised =>
            LET e == error[1]
            IN  /\ result = None
                /\ e.line_number = line_number
                /\ e.line_number < Len(lines)
                /\ e.line = lines[e.line_number + 1]
                /\ e.line_position < Len(e.line)
                /\ e.line[e.line_position + 1] \notin Whitespace
                /\ \A k \in (PrevEnd + 1)..e.line_position : e.line[k] \in Whitespace
                /\ \A i \in 1..Len(matchers) :
                     ~Matches(i, comm_match, Slice(e.line, e.line_position))
                /\ stream = <<"@", "@", "@">> =>
                     e = [type |-> "BadTokenException", line_number |-> 0,
                          line_position |-> 0, line |-> <<"@", "@", "@">>])

\* C8's case: the failure comes after a token was matched, and nothing is returned
C8_Witness ==
    /\ BadTokenRaised
    /\ stream = <<";", " ", "@">>
    /\ Len(output) = 1
    /\ result = None
    /\ error[1].line_position = 2

\* s[i:j]
Slice2(s, i, j) == IF i >= j \/ i >= Len(s) THEN << >>
                   ELSE SubSeq(s, i + 1, IF j > Len(s) THEN Len(s) ELSE j)

AllWhitespace(s) == \A k \in 1..Len(s) : s[k] \in Whitespace

\* C9: a blank or whitespace-only line, and a trailing run of whitespace,
\* are passed over without a match attempt, a token or a failure, in every
\* state of the comment matcher; the lines passed over still count, so every
\* token and failure sits at a non-whitespace character of the line its line
\* number names.
C9_BlankLines ==
    /\ [][( /\ pc = "while"
            /\ line_number < Len(lines)
            /\ AllWhitespace(Slice(line, line_pos)) )
          => /\ pc' = "while"
             /\ line_number' = line_number + 1
             /\ line_pos' = 0
             /\ output' = output
             /\ comm_match' = comm_match
             /\ error' = None
         ]_vars
    /\ [](/\ pc = "matched" =>
               /\ line_pos < Len(line)
               /\ line[line_pos + 1] \notin Whitespace
          /\ \A i \in 1..Len(output) :
               LET li == output[i].line_info
               IN  /\ li.line_number < Len(lines)
                   /\ li.line_start < Len(lines[li.line_number + 1])
                   /\ lines[li.line_number + 1][li.line_start + 1] \notin Whitespace
                   /\ output[i].token.value # None =>
                        Slice2(lines[li.line_number + 1], li.line_start, li.line_end)
                          = output[i].token.value[1]
          /\ BadTokenRaised => ~AllWhitespace(error[1].line))

\* C9's case: inside a comment a whitespace-only line and an empty line were
\* passed over, and the tokens after them are on line 3
C9_Witness ==
    /\ pc = "returned"
    /\ stream = <<"/", "*", " ", "x", "\n", " ", "\t", "\n", "\n",
                  "y", " ", "*", "/", " ", ";">>
    /\ lines[2] = <<" ", "\t">>
    /\ lines[3] = << >>
    /\ Len(result[1]) = 4
    /\ result[1][2].line_info.line_number = 0
    /\ result[1][3].token.token_id = comm_match.ml_end.token
    /\ result[1][3].line_info.line_number = 3
    /\ result[1][4].line_info = [line_number |-> 3, line_start |-> 5, line_end |-> 6]

\* the stream without its whitespace
NonWhitespace(s) == SelectSeq(s, LAMBDA c : c \notin Whitespace)

\* the maximal runs of non-whitespace characters of s
Words(s) ==
    {Slice2(s, p[1], p[2]) :
       p \in {q \in (0..Len(s)) \X (0..Len(s)) :
                /\ q[1] < q[2]
                /\ \A k \in (q[1] + 1)..q[2] : s[k] \notin Whitespace
                /\ (q[1] = 0 \/ s[q[1]] \in Whitespace)
                /\ (q[2] = Len(s) \/ s[q[2] + 1] \in Whitespace)}}

\* s holds only literals of the list, separated by whitespace
OnlyLiterals(s, syms) ==
    \A w \in Words(s) : \E i \in 1..Len(syms) : syms[i].symbol = w

\* the texts of the tokens, concatenated in order
RECURSIVE ConcatTexts(_)
ConcatTexts(tokens) ==
    IF tokens = << >> THEN << >>
    ELSE (IF Head(tokens).token.value = None THEN << >> ELSE Head(tokens).token.value[1])
         \o ConcatTexts(Tail(tokens))

\* the literals are not empty, hold no whitespace, and none comes after one of
\* its own proper prefixes
PrefixOrdered(syms) ==
    /\ \A i \in 1..Len(syms) :
         /\ syms[i].symbol # << >>
         /\ \A k \in 1..Len(syms[i].symbol) : syms[i].symbol[k] \notin Whitespace
    /\ \A i \in 1..Len(syms), j \in 1..Len(syms) :
         (i < j /\ StartsWith(syms[j].symbol, syms[i].symbol))
           => syms[i].symbol = syms[j].symbol

SymbolScanOver ==
    /\ pc \in {"returned", "raised"}
    /\ end_matching_log = << >>
    /\ matchers = <<"symb">>
    /\ OnlyLiterals(stream, symb_match.symbols)

\* C10 as stated: every stream of registered literals separated by
\* whitespace is scanned with success by a symbol matcher, and the texts of the
\* tokens, concatenated, are the stream without its whitespace.
C10_RoundTripAnyOrder ==
    SymbolScanOver =>
       /\ pc = "returned"
       /\ ConcatTexts(result[1]) = NonWhitespace(stream)

\* C10, amended: the same, for a list of non-empty literals without whitespace
\* in which no literal comes after one of its own proper prefixes.
C10_RoundTrip ==
    (SymbolScanOver /\ PrefixOrdered(symb_match.symbols)) =>
       /\ pc = "returned"
       /\ ConcatTexts(result[1]) = NonWhitespace(stream)

\* C10's case: five literals over two lines, with tab and "\r\n" between them
C10_Witness ==
    /\ SymbolScanOver
    /\ PrefixOrdered(symb_match.symbols)
    /\ stream = <<"!", "=", "=", " ", "!", "=", "\t", "!", "\r", "\n", "=", " ", ";">>
    /\ pc = "returned"
    /\ Len(result[1]) = 5
    /\ ConcatTexts(result[1]) = <<"!", "=", "=", "!", "=", "!", "=", ";">>

\* the fields of a line: its maximal runs of non-whitespace characters, in order
Fields(l) ==
    LET starts == {i \in 1..Len(l) :
                     l[i] \notin Whitespace /\ (i = 1 \/ l[i - 1] \in Whitespace)}
        EndOf(i) == CHOOSE j \in i..Len(l) :
                      /\ \A k \in i..j : l[k] \notin Whitespace
                      /\ (j = Len(l) \/ l[j + 1] \in Whitespace)
        Nth(n) == CHOOSE i \in starts : Cardinality({k \in starts : k < i}) = n - 1
    IN  [n \in 1..Cardinality(starts) |-> SubSeq(l, Nth(n), EndOf(Nth(n)))]

\* C11: constructing a SymbolMatcher from a bulk specification fails with
\* ValueError exactly when some line does not hold exactly two fields
\* separated by runs of whitespace (spaces or tabs); otherwise it holds the
\* pairs (literal, kind) of the lines, in line order.
C11_BulkSpecification ==
    (pc \in {"constructed", "raised"} /\ stream # << >>) =>
       LET ls == splitlines(stream)
       IN  /\ (pc = "raised") <=> (\E i \in 1..Len(ls) : Len(Fields(ls[i])) # 2)
           /\ pc = "raised" => error # None /\ error[1].type = "ValueError"
           /\ pc = "constructed" =>
                symb_match.symbols =
                  [i \in 1..Len(ls) |-> [symbol |-> Fields(ls[i])[1],
                                        token |-> Fields(ls[i])[2]]]

\* a step of match_tokens that asks the dispatcher (line 173)
MatchStep == pc = "while" /\ pc' = "matched"

\* the text the dispatcher is asked about in a MatchStep
Asked == Slice(line, line_pos')

\* C12: when the comment matcher is asked while not inside a multi-line
\* comment and the remaining line starts with the multi-line start marker (and
\* not with the single-line marker), it sets the inside flag and returns the
\* start-marker kind with the length of the start marker as width.
C12_StartMarkerWidth ==
    [][( /\ MatchStep
         /\ ~comm_match.is_multiline
         /\ CommAsked(Asked)
         /\ ~StartsWith(Asked, comm_match.comment.symbol)
         /\ StartsWith(Asked, comm_match.ml_start.symbol) )
       => /\ token' = Some([token_id |-> comm_match.ml_start.token, value |-> None])
          /\ width' = Len(comm_match.ml_start.symbol)
          /\ comm_match'.is_multiline
      ]_vars

\* C13: when the comment matcher is asked while inside a multi-line comment
\* and the remaining line contains the end marker, it clears the inside flag
\* and returns the end-marker kind with width (index of the first occurrence
\* of the end marker) + (length of the end marker).
C13_EndMarkerWidth ==
    [][( /\ MatchStep
         /\ comm_match.is_multiline
         /\ CommAsked(Asked)
         /\ Contains(Asked, comm_match.ml_end.symbol) )
       => /\ token' = Some([token_id |-> comm_match.ml_end.token, value |-> None])
          /\ width' = Index(Asked, comm_match.ml_end.symbol)
                        + Len(comm_match.ml_end.symbol)
          /\ ~comm_match'.is_multiline
      ]_vars

\* C14: once inside a multi-line comment the matcher stays inside, over any
\* number of match attempts, lines and scans, until it is asked about a
\* remaining line that contains the end marker; asked about one that does not,
\* it always matches, with the end-marker kind and the length of the whole
\* remaining line as width, whatever markers the text starts with.
C14_StaysInside ==
    /\ [][( /\ MatchStep
            /\ comm_match.is_multiline
            /\ CommAsked(Asked)
            /\ ~Contains(Asked, comm_match.ml_end.symbol) )
          => /\ token' = Some([token_id |-> comm_match.ml_end.token, value |-> None])
             /\ width' = Len(line) - line_pos'
             /\ comm_match'.is_multiline
         ]_vars
    /\ [][(comm_match.is_multiline /\ ~comm_match'.is_multiline)
          => /\ MatchStep
             /\ Contains(Asked, comm_match.ml_end.symbol)
         ]_vars

\* C14's case: on the third line of a comment the text starts with the start
\* marker, and the line before it started with the single-line marker; both
\* were taken whole as comment body
C14_Witness ==
    /\ pc = "matched"
    /\ line_number = 2
    /\ comm_match.is_multiline
    /\ StartsWith(Remaining, comm_match.ml_start.symbol)
    /\ token = Some([token_id |-> comm_match.ml_end.token, value |-> None])
    /\ width = Len(Remaining)
    /\ Len(output) = 3
    /\ output[3].token.token_id = comm_match.ml_end.token
    /\ output[3].line_info = [line_number |-> 1, line_start |-> 0, line_end |-> 4]

\* the comment matcher's end_matching is called on the returned token list
EndMatchingCommStep ==
    /\ pc = "returned"
    /\ end_matching_log' = Append(end_matching_log, "comm")

\* the places of the tokens of a kind in a token list
PlacesOf(tokens, kind) == {i \in 1..Len(tokens) : tokens[i].token.token_id = kind}

\* the greatest element of a non-empty set of numbers
Greatest(S) == CHOOSE x \in S : \A y \in S : y <= x

\* C15: end_matching of the comment matcher, on the token list it is given:
\* if the matcher is inside a multi-line comment it fails with NoEndException
\* at the line number and column of the last token of the start-marker kind;
\* if the matcher is not inside it returns without failure.
C15_EndMatching ==
    [][EndMatchingCommStep =>
        IF comm_match.is_multiline
        THEN /\ pc' = "raised"
             /\ error' # None
             /\ error'[1].type = "NoEndException"
             /\ PlacesOf(result[1], comm_match.ml_start.token) # {}
             /\ LET t == result[1][Greatest(PlacesOf(result[1], comm_match.ml_start.token))]
                IN  /\ error'[1].line_number = t.line_info.line_number
                    /\ error'[1].line_position = t.line_info.line_start
        ELSE /\ pc' = "returned"
             /\ error' = None
      ]_vars

\* a step of match_tokens that appends a token (lines 179-182)
EmitStep == pc = "matched" /\ pc' = "while"

\* C16: every token is appended with the position (line_number, pos,
\* pos + width): line_number the zero-based index of the line, pos the cursor
\* after leading whitespace was skipped, width the width the matcher returned;
\* the end offset minus the start offset is that width and the cursor after
\* the token is the end offset.
C16_TokenPosition ==
    /\ [][EmitStep =>
           /\ line = lines[line_number + 1]
           /\ line_pos < Len(line)
           /\ line[line_pos + 1] \notin Whitespace
           /\ PrevEnd <= line_pos
           /\ \A j \in (PrevEnd + 1)..line_pos : line[j] \in Whitespace
           /\ Len(output') = Len(output) + 1
           /\ SubSeq(output', 1, Len(output)) = output
           /\ LET t == output'[Len(output')]
              IN  /\ t.token = token[1]
                  /\ t.line_info.line_number = line_number
                  /\ t.line_info.line_start = line_pos
                  /\ t.line_info.line_end = line_pos + width
                  /\ t.line_info.line_end - t.line_info.line_start = width
                  /\ line_pos' = t.line_info.line_end
         ]_vars
    /\ [](\A i \in 1..Len(output) :
             output[i].token.value # None =>
                /\ output[i].line_info.line_end - output[i].line_info.line_start
                      = Len(output[i].token.value[1])
                /\ output[i].line_info.line_number < Len(lines)
                /\ StartsWith(Slice(lines[output[i].line_info.line_number + 1],
                                    output[i].line_info.line_start),
                              output[i].token.value[1]))

\* C16's case: the second token of the second line, after a blank
C16_Witness ==
    /\ pc = "while"
    /\ Len(output) = 5
    /\ output[5].token.value = Some(<<";">>)
    /\ output[5].line_info = [line_number |-> 1, line_start |-> 2, line_end |-> 3]
    /\ line_pos = 3

\* C17: every match that match_tokens takes has width at least 1, so the
\* cursor strictly increases on every iteration of the loop within a line
\* (every symbol literal and comment marker being non-empty).
C17_PositiveWidth ==
    [][(MatchStep /\ token' # None => width' >= 1)
       /\ (EmitStep => width >= 1 /\ line_pos' > line_pos)]_vars

\* C18: every token lies inside its line: 0 <= start_offset < end_offset <=
\* length of the line with its line_number.
C18_TokenInsideLine ==
    \A i \in 1..Len(output) :
        /\ output[i].line_info.line_number \in 0..(Len(lines) - 1)
        /\ 0 <= output[i].line_info.line_start
        /\ output[i].line_info.line_start < output[i].line_info.line_end
        /\ output[i].line_info.line_end
              <= Len(lines[output[i].line_info.line_number + 1])

\* C19: whenever match_tokens has returned a token list, the registered
\* comment matcher is not left inside a multi-line comment, so the next scan
\* starts with the flag false.
C19_NoStateLeft ==
    /\ (pc = "returned" /\ \E i \in 1..Len(matchers) : matchers[i] = "comm")
          => ~comm_match.is_multiline
    /\ (pc = "while" /\ output = << >> /\ line_number = 0 /\ line_pos = 0)
          => ~comm_match.is_multiline

\* a token list in source order
InSourceOrder(tokens) ==
    \A i \in 1..(Len(tokens) - 1) :
        /\ tokens[i].line_info.line_number <= tokens[i + 1].line_info.line_number
        /\ tokens[i].line_info.line_number = tokens[i + 1].line_info.line_number
             => tokens[i + 1].line_info.line_start >= tokens[i].line_info.line_end

\* C20: the token list is in source order: line numbers are non-decreasing,
\* and of two consecutive tokens on one line the later starts at or after the
\* end of the earlier.
C20_SourceOrder ==
    /\ InSourceOrder(output)
    /\ result # None => InSourceOrder(result[1])

\* C20's case: a returned list with two tokens on one line, a blank between
\* them, and a token on a later line
C20_Witness ==
    /\ pc = "returned"
    /\ \E i \in 1..(Len(result[1]) - 1) :
          /\ result[1][i].line_info.line_number = result[1][i + 1].line_info.line_number
          /\ result[1][i + 1].line_info.line_start > result[1][i].line_info.line_end
    /\ \E i \in 1..(Len(result[1]) - 1) :
          result[1][i].line_info.line_number < result[1][i + 1].line_info.line_number

=============================================================================
